---- MODULE Spec2Model ----
(***************************************************************************)
(* Verification model of roiextractors: the NWB round-trip writer          *)
(* (NwbSegmentationExtractor.write_nwb), set_dynamic_table_property and    *)
(* the imaging writers (Hdf5ImagingExtractor / MemmapImagingExtractor).    *)
(*                                                                         *)
(* A container (an NWB file held in memory or on disk) is a sequence of    *)
(* nodes in all_children() order; a node is addressed by its position.     *)
(* Python's None is the string NoName / the number NoRate; an unbound      *)
(* local variable is the index Unbound.                                    *)
(***************************************************************************)
EXTENDS Integers, Sequences, FiniteSets, TLC

VARIABLES disk,     \* the container stored at the target path of write_nwb
          last,     \* record of the last call on the NWB writer, reader or accessors
          table,    \* the DynamicTable handed to set_dynamic_table_property
          dtLast,   \* record of the last set_dynamic_table_property call
          files,    \* imaging save paths: path -> stored content
          ioLast,   \* record of the last call on an imaging extractor or writer
          obj,      \* the extractor object the accessors are called on
          handles   \* number of file handles currently open

vars == <<disk, last, table, dtLast, files, ioLast, obj, handles>>

----------------------------------------------------------------------------
(* Values standing for Python's None and for unbound locals *)

NoName == "None"
NoCall == [op |-> "none"]
NoObject == [class |-> "none"]
NoRate == -1
Unbound == 0
Root == 0

(* Range of a sequence *)
Range(s) == {s[i] : i \in DOMAIN s}

(* Indices i of s, ascending, with P(s[i]): a list comprehension over enumerate *)
RECURSIVE IdxFrom(_, _, _)
IdxFrom(s, i, name) ==
    IF i > Len(s) THEN <<>>
    ELSE IF s[i].name = name THEN <<i>> \o IdxFrom(s, i + 1, name)
    ELSE IdxFrom(s, i + 1, name)

----------------------------------------------------------------------------
(* Container nodes *)

NoTiming == [rate |-> NoRate, start |-> 0, stamps |-> 0, hasStamps |-> FALSE]

Node(name, type, parent) ==
    [name |-> name, type |-> type, parent |-> parent,
     rows |-> <<>>, rois |-> <<>>, timing |-> NoTiming, data |-> "none"]

SeriesNode(name, type, parent, rois, timing, data) ==
    [name |-> name, type |-> type, parent |-> parent,
     rows |-> <<>>, rois |-> rois, timing |-> timing, data |-> data]

TableNode(name, parent, rows) ==
    [name |-> name, type |-> "PlaneSegmentation", parent |-> parent,
     rows |-> rows, rois |-> <<>>, timing |-> NoTiming, data |-> "none"]

Row(id, grp, gen) == [id |-> id, grp |-> grp, gen |-> gen]

(* The node positions, ascending, whose name is `name`:
   [i for i, e in enumerate(_nwbchildren_name) if e == name] *)
Match(snap, name) == IdxFrom(snap, 1, name)

(* list(nwbfile.devices.values())[0]: the first Device of the container *)
FirstDevice(nodes) ==
    LET ds == {i \in DOMAIN nodes : nodes[i].type = "Device"}
    IN IF ds = {} THEN Unbound ELSE CHOOSE i \in ds : \A j \in ds : i <= j

(* Append one node per element of a name list, all with the same type and parent *)
RECURSIVE AddAll(_, _, _, _)
AddAll(nodes, names, type, parent) ==
    IF names = <<>> THEN nodes
    ELSE AddAll(Append(nodes, Node(Head(names), type, parent)), Tail(names), type, parent)

----------------------------------------------------------------------------
(* write_nwb: the locals of one call *)

Frame0(nodes) ==
    [nwb |-> nodes, device |-> Unbound, och_new |-> <<>>, och_old |-> Unbound,
     imaging_plane |-> Unbound, image_series |-> Unbound, mod |-> Unbound,
     img_seg |-> Unbound, fl |-> Unbound, ps |-> Unbound,
     neuron_rois |-> <<>>, background_rois |-> <<>>, timestamps |-> NoTiming,
     images |-> FALSE, columns |-> {}, identifier |-> "stored",
     session_start_time |-> "stored", err |-> "none", step |-> "start"]

Fail(f, err, step) == [f EXCEPT !.err = err, !.step = step]

(* optical_channel_names, lines 334-337 *)
OpticalChannelNames(a) ==
    IF a.optical_channel_name = NoName THEN a.ex.channels
    ELSE <<a.optical_channel_name>> \o a.ex.channels

(* check existence of device *)
StepDevice(f, snap, a) ==
    IF f.err # "none" THEN f
    ELSE LET m == Match(snap, a.device_name) IN
         IF m = <<>>
         THEN LET nodes == Append(f.nwb, Node(a.device_name, "Device", Root))
              IN [f EXCEPT !.nwb = nodes, !.device = FirstDevice(nodes), !.step = "device"]
         ELSE \* len(_device_exist > 1): a list compared with an int
              Fail(f, "TypeError", "device")

(* check existence of optical channel *)
StepOpticalChannel(f, snap, a) ==
    IF f.err # "none" THEN f
    ELSE LET m == Match(snap, a.optical_channel_name) IN
         IF m = <<>>
         THEN IF ~a.ex.hasChannels
              THEN Fail(f, "TypeError", "optical_channel")   \* enumerate(None)
              ELSE [f EXCEPT !.och_new = OpticalChannelNames(a), !.step = "optical_channel"]
         ELSE IF Len(m) = 1
         THEN [f EXCEPT !.och_new = Tail(OpticalChannelNames(a)), !.och_old = m[1],
                        !.step = "optical_channel"]
         ELSE Fail(f, "Ambiguous", "optical_channel")

(* check existence of imaging plane *)
StepImagingPlane(f, snap, a) ==
    IF f.err # "none" THEN f
    ELSE LET m == Match(snap, a.imaging_plane_name) IN
         IF m = <<>>
         THEN LET withPlane == Append(f.nwb, Node(a.imaging_plane_name, "ImagingPlane", Root))
                  plane == Len(withPlane)
              IN \* the result of create_imaging_plane is not assigned
                 [f EXCEPT !.nwb = AddAll(withPlane, f.och_new, "OpticalChannel", plane),
                           !.step = "imaging_plane"]
         ELSE IF Len(m) = 1
         THEN [f EXCEPT !.imaging_plane = m[1], !.step = "imaging_plane"]
         ELSE Fail(f, "Ambiguous", "imaging_plane")

(* check existence of image series *)
StepImageSeries(f, snap, a) ==
    IF f.err # "none" THEN f
    ELSE LET m == Match(snap, a.image_series_name) IN
         IF m = <<>>
         THEN \* the TwoPhotonSeries is added but not assigned to image_series
              [f EXCEPT !.nwb = Append(f.nwb, Node(a.image_series_name, "TwoPhotonSeries", Root)),
                        !.step = "image_series"]
         ELSE IF Len(m) = 1
         THEN [f EXCEPT !.image_series = m[1], !.step = "image_series"]
         ELSE Fail(f, "Ambiguous", "image_series")

(* Adding Ophys *)
StepModule(f, snap, a) ==
    IF f.err # "none" THEN f
    ELSE LET m == Match(snap, a.processing_module_name) IN
         IF m = <<>>
         THEN LET nodes == Append(f.nwb, Node(a.processing_module_name, "ProcessingModule", Root))
              IN [f EXCEPT !.nwb = nodes, !.mod = Len(nodes), !.step = "module"]
         ELSE IF Len(m) = 1
         THEN [f EXCEPT !.mod = m[1], !.step = "module"]
         ELSE Fail(f, "Ambiguous", "module")

(* Adding ImageSegmentation *)
StepImageSegmentation(f, snap) ==
    IF f.err # "none" THEN f
    ELSE LET m == Match(snap, "ImageSegmentation") IN
         IF m = <<>>
         THEN LET nodes == Append(f.nwb, Node("ImageSegmentation", "ImageSegmentation", f.mod))
              IN [f EXCEPT !.nwb = nodes, !.img_seg = Len(nodes), !.step = "image_segmentation"]
         ELSE [f EXCEPT !.img_seg = m[1], !.step = "image_segmentation"]

(* Adding Fluorescence *)
StepFluorescence(f, snap) ==
    IF f.err # "none" THEN f
    ELSE LET m == Match(snap, "Fluorescence") IN
         IF m = <<>>
         THEN LET nodes == Append(f.nwb, Node("Fluorescence", "Fluorescence", f.mod))
              IN [f EXCEPT !.nwb = nodes, !.fl = Len(nodes), !.step = "fluorescence"]
         ELSE [f EXCEPT !.fl = m[1], !.step = "fluorescence"]

(* Adding PlaneSegmentation *)
StepPlaneSegmentation(f, snap) ==
    IF f.err # "none" THEN f
    ELSE LET m == Match(snap, "PlaneSegmentation") IN
         IF m = <<>>
         THEN IF f.imaging_plane = Unbound \/ f.image_series = Unbound
              THEN Fail(f, "NameError", "plane_segmentation")
              ELSE LET nodes == Append(f.nwb, TableNode("PlaneSegmentation", f.img_seg, <<>>))
                   IN [f EXCEPT !.nwb = nodes, !.ps = Len(nodes), !.step = "plane_segmentation"]
         ELSE [f EXCEPT !.ps = m[1], !.step = "plane_segmentation"]

(* The branch taken when the file exists, lines 353-457 *)
ExistingBranch(nodes, a) ==
    LET f1 == StepDevice(Frame0(nodes), nodes, a)
        f2 == StepOpticalChannel(f1, nodes, a)
        f3 == StepImagingPlane(f2, nodes, a)
        f4 == StepImageSeries(f3, nodes, a)
        f5 == StepModule(f4, nodes, a)
        f6 == StepImageSegmentation(f5, nodes)
        f7 == StepFluorescence(f6, nodes)
    IN StepPlaneSegmentation(f7, nodes)

(* The branch taken when the file does not exist, lines 459-494: the NWBFile is
   built with identifier str(uuid.uuid4()) and session_start_time datetime.now()
   (nwbfile_kwargs is empty), the device is added, then
   create_imaging_plane(..., device=device, ...) reads the local `device`, which
   this branch never assigns *)
FreshBranch(a) ==
    LET f == Frame0(<<Node(a.device_name, "Device", Root)>>)
    IN Fail([f EXCEPT !.step = "device", !.identifier = "uuid4",
                      !.session_start_time = "now"],
            "NameError", "imaging_plane")

(* Adding custom columns, lines 500-528: the loop body is guarded by
   `if not propertydict`, so it runs only over an empty or missing list *)
StepProperties(f, a) ==
    IF f.err # "none" THEN f
    ELSE IF a.propertydict = "None" THEN Fail(f, "TypeError", "properties")  \* len(None)
    ELSE \* an empty list: the loop has no pass; a non-empty list: the block is
         \* skipped, set_dynamic_table_property is not called, no column is added
         [f EXCEPT !.step = "properties"]

(* ps.add_roi(..., id=roiid) for each id of roi_idx, in order *)
RECURSIVE AddNeuronRows(_, _, _)
AddNeuronRows(rows, ids, gen) ==
    IF ids = <<>> THEN rows
    ELSE AddNeuronRows(Append(rows, Row(Head(ids), "neuron", gen)), Tail(ids), gen)

(* ps.add_roi(...) without id, n times: the table numbers the row by its length *)
RECURSIVE AddBackgroundRows(_, _, _)
AddBackgroundRows(rows, n, gen) ==
    IF n = 0 THEN rows
    ELSE AddBackgroundRows(Append(rows, Row(Len(rows), "background", gen)), n - 1, gen)

(* Adding Image and Pixel Masks, and the background components, lines 530-546 *)
StepRois(f, a, gen) ==
    IF f.err # "none" THEN f
    ELSE LET neurons == AddNeuronRows(f.nwb[f.ps].rows, a.ex.roi_idx, gen)
             all == IF a.ex.hasBkMasks
                    THEN AddBackgroundRows(neurons, a.ex.nBkMasks, gen)
                    ELSE neurons
         IN [f EXCEPT !.nwb[f.ps].rows = all, !.step = "rois"]

(* list(range(lo, hi)) *)
RECURSIVE PyRange(_, _)
PyRange(lo, hi) == IF lo >= hi THEN <<>> ELSE <<lo>> \o PyRange(lo + 1, hi)

(* region=list(range(no_neurons_rois)) *)
NeuronRegion(ex) == PyRange(0, Len(ex.roi_idx))

(* region=list(range(no_neurons_rois, no_neurons_rois + no_background_rois)) *)
BackgroundRegion(ex) == PyRange(Len(ex.roi_idx), Len(ex.roi_idx) + ex.nBkResp)

(* Add Traces: the two region handles, lines 549-555 *)
StepRegions(f, a) ==
    IF f.err # "none" THEN f
    ELSE [f EXCEPT !.neuron_rois = NeuronRegion(a.ex),
                   !.background_rois = BackgroundRegion(a.ex), !.step = "regions"]

(* As StepTimestamps, without the starting time *)
StepTimestampsFromZero(f, a) ==
    IF f.err # "none" THEN f
    ELSE IF a.ex.rate = NoRate THEN Fail(f, "TypeError", "timestamps")
    ELSE [f EXCEPT !.timestamps = [rate |-> a.ex.rate, start |-> 0,
                                   stamps |-> a.ex.frames, hasStamps |-> TRUE],
                   !.step = "timestamps"]

(* timestamps = np.arange(frames) / imaging_rate + starting_time, lines 557-558 *)
StepTimestamps(f, a) ==
    IF f.err # "none" THEN f
    ELSE IF a.ex.rate = NoRate THEN Fail(f, "TypeError", "timestamps")  \* array / None
    ELSE [f EXCEPT !.timestamps = [rate |-> a.ex.rate, start |-> a.starting_time,
                                   stamps |-> a.ex.frames, hasStamps |-> TRUE],
                   !.step = "timestamps"]

(* As SeriesTiming, with the timestamps array handed over as well *)
SeriesTimingWithTimestamps(a) ==
    [rate |-> a.ex.rate, start |-> a.starting_time, stamps |-> a.ex.frames, hasStamps |-> TRUE]

(* The timing handed to create_roi_response_series: starting_time and rate *)
SeriesTiming(a) ==
    [rate |-> a.ex.rate, start |-> a.starting_time, stamps |-> 0, hasStamps |-> FALSE]

(* Neurons TimeSeries, lines 560-569 *)
StepNeuronSeries(f, snap, a) ==
    IF f.err # "none" THEN f
    ELSE IF Match(snap, a.neuron_roi_response_series_name) = <<>>
    THEN [f EXCEPT !.nwb = Append(f.nwb,
                       SeriesNode(a.neuron_roi_response_series_name, "RoiResponseSeries",
                                  f.fl, f.neuron_rois, SeriesTiming(a), "roi_response")),
                   !.step = "neuron_series"]
    ELSE Fail(f, "AlreadyExists", "neuron_series")

(* Background TimeSeries, lines 571-580 *)
StepBackgroundSeries(f, snap, a) ==
    IF f.err # "none" THEN f
    ELSE IF Match(snap, a.background_roi_response_series_name) = <<>>
    THEN [f EXCEPT !.nwb = Append(f.nwb,
                       SeriesNode(a.background_roi_response_series_name, "RoiResponseSeries",
                                  f.fl, f.background_rois, SeriesTiming(a), "roi_response")),
                   !.step = "background_series"]
    ELSE Fail(f, "AlreadyExists", "background_series")

(* Residual TimeSeries, lines 582-584: mod.add(TimeSeries(name='residuals', ...)) *)
StepResidual(f) ==
    IF f.err # "none" THEN f
    ELSE [f EXCEPT !.nwb = Append(f.nwb,
                       SeriesNode("residuals", "TimeSeries", f.mod, <<>>, f.timestamps,
                                  "roi_response_residual")),
                   !.step = "residuals"]

(* Summary images, lines 585-588: the Images object is built but never added
   to the file *)
StepImages(f, a) ==
    IF f.err # "none" THEN f
    ELSE [f EXCEPT !.images = a.ex.hasCn, !.step = "images"]

(* Lines 496-588, common to both branches *)
PopulateSteps(f0, snap, a, gen) ==
    LET f1 == StepProperties(f0, a)
        f2 == StepRois(f1, a, gen)
        f3 == StepRegions(f2, a)
        f4 == StepTimestamps(f3, a)
        f5 == StepNeuronSeries(f4, snap, a)
        f6 == StepBackgroundSeries(f5, snap, a)
        f7 == StepResidual(f6)
    IN StepImages(f7, a)

----------------------------------------------------------------------------
(* The target path of write_nwb *)

NoNames == <<>>
Absent == [state |-> "absent", nodes |-> <<>>, writes |-> 0, names |-> NoNames]
Blank == [state |-> "blank", nodes |-> <<>>, writes |-> 0, names |-> NoNames]

(* A stored container; writes counts the write_nwb calls that stored it and
   names remembers the entity names of the latest one (history, not content) *)
Valid(nodes, writes, names) ==
    [state |-> "valid", nodes |-> nodes, writes |-> writes, names |-> names]

(* The entity-name arguments of a call *)
EntityNames(a) ==
    << a.device_name, a.optical_channel_name, a.imaging_plane_name, a.image_series_name,
       a.processing_module_name, a.neuron_roi_response_series_name,
       a.background_roi_response_series_name >>

(* One write_nwb call on the path holding d: the final locals and the path's
   content afterwards.  NWBHDF5IO(filename, mode='w') creates the file when the
   with-block is entered; only io.write(nwbfile), the last statement, stores
   the container. *)
RunWriteNwb(d, a) ==
    IF a.optical_channel_name # NoName /\ ~a.ex.hasChannels
    THEN [f |-> Fail(Frame0(<<>>), "TypeError", "args"), disk |-> d]     \* [name, *None]
    ELSE IF a.ext # ".nwb"
    THEN [f |-> Fail(Frame0(<<>>), "WrongFilename", "args"), disk |-> d]
    ELSE IF d.state = "absent"
    THEN LET f == PopulateSteps(FreshBranch(a), <<>>, a, 1)
         IN [f |-> f, disk |-> IF f.err = "none" THEN Valid(f.nwb, 1, EntityNames(a)) ELSE Blank]
    ELSE IF d.state = "blank"
    THEN [f |-> Fail(Frame0(<<>>), "ReadError", "read"), disk |-> d]     \* io.read()
    ELSE LET f == PopulateSteps(ExistingBranch(d.nodes, a), d.nodes, a, d.writes + 1)
         IN [f |-> f, disk |-> IF f.err = "none"
                             THEN Valid(f.nwb, d.writes + 1, EntityNames(a)) ELSE d]

----------------------------------------------------------------------------
(* Inputs *)

Extractor(ids, rate, channels, hasBk, nBkMasks, nBkResp, frames, hasCn) ==
    [roi_idx |-> ids, rate |-> rate, hasChannels |-> TRUE, channels |-> channels,
     hasBkMasks |-> hasBk, nBkMasks |-> nBkMasks, nBkResp |-> nBkResp,
     frames |-> frames, hasCn |-> hasCn]

(* Segmentation extractors handed to write_nwb: ROI ids are distinct and
   neither zero-based nor sorted; the third has no sampling frequency *)
Extractors ==
    { Extractor(<<5, 3>>, 10, <<"ChA">>, TRUE, 1, 1, 2, TRUE),
      Extractor(<<4>>, 30, <<>>, FALSE, 0, 1, 3, FALSE),
      Extractor(<<5, 3>>, NoRate, <<"ChA">>, TRUE, 1, 1, 2, FALSE) }

DeviceNames == {"DevA", "DevB"}
OpticalChannelArgs == {NoName, "ChA"}
ImagingPlaneNames == {"PlaneA", "Shared"}
ImageSeriesNames == {"MyTwoPhotonSeries"}
ModuleNames == {"Ophys"}
SeriesNamePairs == {<<"NeuA", "BkA">>, <<"NeuB", "BkB">>}
PropertyDicts == {"None", "Empty", "NonEmpty"}

PlainWriteArgs ==
    {[ext |-> ".nwb", identifier |-> NoName, session_start_time |-> "T1",
      device_name |-> dv, optical_channel_name |-> oc,
      imaging_plane_name |-> ip, image_series_name |-> is,
      processing_module_name |-> pm,
      neuron_roi_response_series_name |-> sn[1],
      background_roi_response_series_name |-> sn[2],
      propertydict |-> pd, starting_time |-> 0, ex |-> ex] :
        dv \in DeviceNames, oc \in OpticalChannelArgs, ip \in ImagingPlaneNames,
        is \in ImageSeriesNames, pm \in ModuleNames, sn \in SeriesNamePairs,
        pd \in PropertyDicts, ex \in Extractors}

(* Calls that also give an identifier and a starting time *)
WriteArgs ==
    PlainWriteArgs
    \cup {[a EXCEPT !.identifier = "Session1", !.starting_time = 5] :
             a \in {b \in PlainWriteArgs : /\ b.propertydict = "Empty"
                                            /\ b.imaging_plane_name = "PlaneA"
                                            /\ b.neuron_roi_response_series_name = "NeuA"
                                            /\ b.device_name = "DevA"
                                            /\ b.optical_channel_name = NoName}}

(* Containers written by other tools, found at the path before the first call *)
Acquisition ==
    << Node("Rig", "Device", Root),
       Node("PlaneA", "ImagingPlane", Root),
       Node("ChA", "OpticalChannel", 2),
       Node("MyTwoPhotonSeries", "TwoPhotonSeries", Root) >>

Processing(mod, first) ==
    << Node(mod, "ProcessingModule", Root),
       Node("ImageSegmentation", "ImageSegmentation", first),
       Node("Fluorescence", "Fluorescence", first) >>

K0 == <<>>
K1 == Acquisition \o Processing("Ophys", 5)
K2 == K1 \o << TableNode("PlaneSegmentation", 6, <<Row(7, "neuron", 0)>>),
               SeriesNode("OldNeurons", "RoiResponseSeries", 7, <<0>>,
                          [rate |-> 10, start |-> 0, stamps |-> 0, hasStamps |-> FALSE],
                          "roi_response"),
               SeriesNode("residuals", "TimeSeries", 5, <<>>,
                          [rate |-> 10, start |-> 0, stamps |-> 2, hasStamps |-> TRUE],
                          "roi_response_residual") >>
K3 == K1 \o << TableNode("PlaneSegmentation", 6, <<>>) >>
        \o Processing("Other", 9)
        \o << TableNode("PlaneSegmentation", 10, <<Row(9, "neuron", 0)>>) >>
K4 == << Node("DevA", "Device", Root),
         Node("Shared", "ImagingPlane", Root),
         Node("ChA", "OpticalChannel", 2),
         Node("P2", "ImagingPlane", Root),
         Node("ChA", "OpticalChannel", 4),
         Node("Shared", "TwoPhotonSeries", Root) >>

(* A container whose ROI table carries another name, and one with ROI table and
   response series but no imaging plane *)
K5 == << Node("Ophys", "ProcessingModule", Root),
         Node("ImageSegmentation", "ImageSegmentation", 1),
         Node("Fluorescence", "Fluorescence", 1),
         TableNode("Rois", 2, <<Row(7, "neuron", 0)>>),
         SeriesNode("OldNeurons", "RoiResponseSeries", 3, <<0>>,
                    [rate |-> 10, start |-> 0, stamps |-> 0, hasStamps |-> FALSE],
                    "roi_response") >>
K6 == << Node("Ophys", "ProcessingModule", Root),
         Node("ImageSegmentation", "ImageSegmentation", 1),
         Node("Fluorescence", "Fluorescence", 1),
         TableNode("PlaneSegmentation", 2, <<Row(7, "neuron", 0)>>),
         SeriesNode("OldNeurons", "RoiResponseSeries", 3, <<0>>,
                    [rate |-> 10, start |-> 0, stamps |-> 0, hasStamps |-> FALSE],
                    "roi_response") >>

InitialDisks == {Absent} \cup {Valid(k, 0, NoNames) : k \in {K0, K1, K2, K3, K4, K5, K6}}

----------------------------------------------------------------------------
(* The timing precondition of a segmentation extractor's constructor
   (NewExtractSegmentationExtractor): sampling_frequency and timestamps, each
   given or None (NoRate, NoStamps); timestamps are given by their number *)

NoStamps == -1
NumFrames == 2

ExtractorTimingCheck(sampling_frequency, timestamps) ==
    IF sampling_frequency = NoRate /\ timestamps = NoStamps
    THEN "AssertionError: Either sampling_frequency or timestamps must be provided."
    ELSE IF sampling_frequency # NoRate /\ timestamps # NoStamps
    THEN "AssertionError: Either sampling_frequency or timestamps must be provided, but not both."
    ELSE IF timestamps # NoStamps /\ timestamps # NumFrames
    THEN "AssertionError: The timestamps should have the same length of the number of frames!"
    ELSE "none"

----------------------------------------------------------------------------
(* Specification of the writer *)

Init ==
    /\ disk \in InitialDisks
    /\ last = NoCall
    /\ table = <<>> /\ dtLast = NoCall
    /\ files = <<>> /\ ioLast = NoCall
    /\ obj = NoObject /\ handles = 0

WriteNwb(a) ==
    LET r == RunWriteNwb(disk, a) IN
    /\ last = NoCall
    /\ disk' = r.disk
    /\ last' = [op |-> "write_nwb", args |-> a, before |-> disk,
                err |-> r.f.err, step |-> r.f.step, f |-> r.f]
    /\ UNCHANGED <<table, dtLast, files, ioLast, obj, handles>>

(* write_nwb has returned or raised: its locals are gone, the next call sees
   the stored container only *)
Return ==
    /\ last # NoCall
    /\ last' = NoCall
    /\ UNCHANGED <<disk, table, dtLast, files, ioLast, obj, handles>>

ConstructExtractor(sf, ts) ==
    /\ last = NoCall
    /\ last' = [op |-> "NewExtractSegmentationExtractor", sampling_frequency |-> sf,
                timestamps |-> ts, err |-> ExtractorTimingCheck(sf, ts)]
    /\ UNCHANGED <<disk, table, dtLast, files, ioLast, obj, handles>>

----------------------------------------------------------------------------
(* NwbSegmentationExtractor.__init__: the read path *)

(* Positions of the nodes of a type, ascending *)
RECURSIVE OfTypeFrom(_, _, _)
OfTypeFrom(s, i, type) ==
    IF i > Len(s) THEN <<>>
    ELSE IF s[i].type = type THEN <<i>> \o OfTypeFrom(s, i + 1, type)
    ELSE OfTypeFrom(s, i + 1, type)

OfType(nodes, type) == OfTypeFrom(nodes, 1, type)

(* The names of the nodes at the given positions *)
NamesAt(nodes, idx) == [k \in DOMAIN idx |-> nodes[idx[k]].name]

(* The ids of the rows of a table: ps.id.data *)
RowIds(rows) == [k \in DOMAIN rows |-> rows[k].id]

(* self.channel_names, lines 139-148: None without an imaging plane, else one
   list of optical-channel names per imaging plane *)
ReadChannelNames(nodes) ==
    LET planes == OfType(nodes, "ImagingPlane") IN
    IF planes = <<>> THEN [isNone |-> TRUE, perPlane |-> <<>>]
    ELSE [isNone |-> FALSE,
          perPlane |-> [k \in DOMAIN planes |->
                          LET chs == OfType(nodes, "OpticalChannel")
                          IN NamesAt(nodes, SelectSeq(chs, LAMBDA c : nodes[c].parent = planes[k]))]]

(* mod['Fluorescence'].get_roi_response_series[...], line 119.  With one module,
   mod is still nwbfile.processing, keyed by module names; with several, mod is
   the first module.  get_roi_response_series is a method and is subscripted. *)
FluorescenceLookup(nodes, mods) ==
    IF Len(mods) = 1
    THEN IF \E k \in DOMAIN mods : nodes[mods[k]].name = "Fluorescence"
         THEN "AttributeError" ELSE "KeyError"
    ELSE IF \E i \in DOMAIN nodes : nodes[i].name = "Fluorescence" /\ nodes[i].parent = mods[1]
         THEN "TypeError" ELSE "KeyError"

ReadFail(err, step) == [err |-> err, step |-> step, roi_idx |-> <<>>, rate |-> NoRate,
                        channel_names |-> [isNone |-> TRUE, perPlane |-> <<>>]]

(* The constructor on the path holding d: its error, or the fields it sets *)
ReadNwb(d) ==
    IF d.state = "absent" THEN ReadFail("FileNotFound", "exists")
    ELSE IF d.state = "blank" THEN ReadFail("ReadError", "read")
    ELSE LET nodes == d.nodes
             mods == OfType(nodes, "ProcessingModule")
             ps == Match(nodes, "PlaneSegmentation")
             rrs == OfType(nodes, "RoiResponseSeries")
         IN IF mods = <<>> THEN ReadFail("NoModule", "module")
            \* without a PlaneSegmentation the code prints and goes on (lines 99-100)
            ELSE IF rrs = <<>> THEN ReadFail("NoRoiResponse", "roi_response")
            ELSE IF FluorescenceLookup(nodes, mods) # "none"
            THEN ReadFail(FluorescenceLookup(nodes, mods), "roi_response")
            ELSE IF ps = <<>> THEN ReadFail("NameError", "columns")   \* ps.colnames, line 129
            ELSE [err |-> "none", step |-> "done",
                  roi_idx |-> RowIds(nodes[ps[1]].rows),
                  rate |-> nodes[rrs[1]].timing.rate,
                  channel_names |-> ReadChannelNames(nodes)]

(* check_segmentations_equal on the fields the model carries: number of ROIs,
   sampling frequency, channel names, ROI ids *)
CheckSegmentationsEqual(ex, r) ==
    /\ Len(ex.roi_idx) = Len(r.roi_idx)
    /\ ex.rate = r.rate
    /\ ~r.channel_names.isNone /\ ex.hasChannels
    /\ r.channel_names.perPlane = <<ex.channels>>
    /\ ex.roi_idx = r.roi_idx

(* The object a successful __init__ leaves: the fields the accessors read.
   __init__ assigns no _accepted_list. *)
SegmentationObject(r) ==
    [class |-> "NwbSegmentationExtractor", roi_idx |-> r.roi_idx,
     channel_names |-> r.channel_names]

(* NwbSegmentationExtractor(filepath) on the stored container; the container is
   opened in a with-block, which closes it on every path *)
ConstructNwb ==
    LET r == ReadNwb(disk) IN
    /\ last = NoCall
    /\ last' = [op |-> "NwbSegmentationExtractor", before |-> disk, err |-> r.err,
                step |-> r.step, r |-> r]
    /\ obj' = IF r.err = "none" THEN SegmentationObject(r) ELSE NoObject
    /\ UNCHANGED <<disk, table, dtLast, files, ioLast, handles>>

Next ==
    \/ \E a \in WriteArgs : WriteNwb(a)
    \/ \E sf \in {NoRate, 30}, ts \in {NoStamps, 1, NumFrames} : ConstructExtractor(sf, ts)
    \/ ConstructNwb
    \/ Return

Spec == Init /\ [][Next]_vars

----------------------------------------------------------------------------
(* set_dynamic_table_property *)

NaN == -1

MaxRowIds == 2
MaxValues == 2

(* ids.index(x): the first position of x, 0-based; ids must hold x *)
IndexOf(ids, x) == (CHOOSE i \in DOMAIN ids : ids[i] = x /\ \A j \in 1..(i - 1) : ids[j] # x) - 1

(* zip(row_ids, values): pairs up to the shorter length *)
Zip(xs, ys) ==
    LET n == IF Len(xs) < Len(ys) THEN Len(xs) ELSE Len(ys)
    IN [k \in 1..n |-> <<xs[k], ys[k]>>]

(* As AssignAll, writing the k-th value to the k-th row instead of the row whose
   id is the k-th row id *)
AssignAllByPosition(data, ids, pairs) ==
    [data |-> [k \in DOMAIN data |-> IF k <= Len(pairs) THEN pairs[k][2] ELSE data[k]],
     err |-> "none"]

(* for (row_id, value) in zip(row_ids, values): data[ids.index(row_id)] = value.
   The result carries the data reached and whether an index was out of range. *)
RECURSIVE AssignAll(_, _, _)
AssignAll(data, ids, pairs) ==
    IF pairs = <<>> THEN [data |-> data, err |-> "none"]
    ELSE LET pos == IndexOf(ids, Head(pairs)[1]) + 1 IN
         IF pos > Len(data) THEN [data |-> data, err |-> "IndexError"]
         ELSE AssignAll([data EXCEPT ![pos] = Head(pairs)[2]], ids, Tail(pairs))

(* As Validate, without the comparison of the two lengths *)
ValidateNoLengthCheck(t, a) ==
    IF ~a.idsAreInts THEN "TypeError"
    ELSE IF \E k \in DOMAIN a.row_ids : a.row_ids[k] \notin Range(t.ids) THEN "ValueError"
    ELSE "none"

(* The checks of lines 27-35, in order; "none" when all pass *)
Validate(t, a) ==
    IF ~a.idsAreInts THEN "TypeError"
    ELSE IF \E k \in DOMAIN a.row_ids : a.row_ids[k] \notin Range(t.ids) THEN "ValueError"
    ELSE IF Len(a.row_ids) # Len(a.values) /\ ~a.index THEN "ValueError"
    ELSE "none"

(* dynamic_table.add_column(name=..., data=..., index=...) *)
AddColumn(t, name, data, index) ==
    [t EXCEPT !.cols = [c \in DOMAIN t.cols \cup {name} |->
                           IF c = name THEN [data |-> data, indexed |-> index]
                           ELSE t.cols[c]]]

(* Lines 37-61: the table afterwards and the error raised, if any *)
SetDynamicTableProperty(t, a) ==
    IF Validate(t, a) # "none" THEN [table |-> t, err |-> Validate(t, a)]
    ELSE IF ~a.index
    THEN IF a.property_name \in DOMAIN t.cols
         THEN LET r == AssignAll(t.cols[a.property_name].data, t.ids, Zip(a.row_ids, a.values))
              IN [table |-> [t EXCEPT !.cols[a.property_name].data = r.data], err |-> r.err]
         ELSE LET r == AssignAll([k \in DOMAIN t.ids |-> a.default_value], t.ids,
                                 Zip(a.row_ids, a.values))
              IN [table |-> AddColumn(t, a.property_name, r.data, FALSE), err |-> "none"]
    ELSE IF a.property_name \in DOMAIN t.cols
         THEN [table |-> t, err |-> "NotImplementedError"]
         ELSE [table |-> AddColumn(t, a.property_name, a.values, TRUE), err |-> "none"]

(* Inputs of set_dynamic_table_property *)
SeqsUpTo(S, n) == UNION {[1..k -> S] : k \in 0..n}

RowIdValues == {1, 2, 3}
CellValues == {5, 6}
PropertyNames == {"snr", "area"}

DtArgs ==
    [row_ids : SeqsUpTo(RowIdValues, MaxRowIds), values : SeqsUpTo(CellValues, MaxValues),
     property_name : PropertyNames, index : BOOLEAN, default_value : {NaN},
     idsAreInts : {TRUE}]
    \cup {[row_ids |-> <<1>>, values |-> <<5>>, property_name |-> "snr", index |-> FALSE,
           default_value |-> NaN, idsAreInts |-> FALSE]}

EmptyCols == [c \in {} |-> <<>>]

(* A column holding v in every row of a table with these ids *)
FullColumn(ids, v) == [data |-> [k \in DOMAIN ids |-> v], indexed |-> FALSE]

(* Tables handed in: id columns as add_roi leaves them (ids may repeat after two
   writes), with no extra column, with "snr", or with "snr" and "area" *)
InitialTables ==
    {[ids |-> ids, cols |-> cols] :
        ids \in {<<>>, <<2, 1>>, <<1, 2, 1>>},
        cols \in {EmptyCols}}
    \cup {[ids |-> ids, cols |-> [c \in {"snr"} |-> FullColumn(ids, 5)]] :
             ids \in {<<2, 1>>, <<1, 2, 1>>}}
    \cup {[ids |-> ids, cols |-> [c \in {"snr", "area"} |->
                                     IF c = "snr" THEN FullColumn(ids, 6)
                                     ELSE [data |-> <<5>>, indexed |-> TRUE]]] :
             ids \in {<<2, 1>>, <<1, 2, 1>>}}

InitDT ==
    /\ table \in InitialTables
    /\ dtLast = NoCall
    /\ disk = Absent /\ last = NoCall
    /\ files = <<>> /\ ioLast = NoCall
    /\ obj = NoObject /\ handles = 0

SetProperty(a) ==
    LET r == SetDynamicTableProperty(table, a) IN
    /\ dtLast = NoCall
    /\ table' = r.table
    /\ dtLast' = [op |-> "set_dynamic_table_property", args |-> a, before |-> table,
                  err |-> r.err]
    /\ UNCHANGED <<disk, last, files, ioLast, obj, handles>>

NextDT == \E a \in DtArgs : SetProperty(a)

SpecDT == InitDT /\ [][NextDT]_vars

----------------------------------------------------------------------------
(* The imaging writers: Hdf5ImagingExtractor.write_imaging and
   MemmapImagingExtractor.write_imaging, on one save path *)

MaxFrames == 2
MaxChannels == 2

NoFile == [exists |-> FALSE, kind |-> "none", source |-> "none", planes |-> 0,
           size |-> 0, complete |-> FALSE]

(* A stored video: which imaging object it came from, how many frame planes were
   written out of how many, and whether the writer finished *)
VideoFile(kind, source, planes, size, complete) ==
    [exists |-> TRUE, kind |-> kind, source |-> source, planes |-> planes,
     size |-> size, complete |-> complete]

(* Hdf5ImagingExtractor.write_imaging.  a.failAfter is the number of frames
   written when the frame source or the disk fails; the number of frames of the
   imaging object when nothing fails. *)
WriteImagingHdf5(f, a) ==
    IF a.suffix \notin {".h5", ".hdf5"}
    THEN [file |-> f, err |-> "AssertionError"]
    ELSE IF f.exists /\ ~a.overwrite
    THEN [file |-> f, err |-> "FileExistsError"]
    ELSE \* save_path.unlink() when it existed, then h5py.File(save_path, "w")
         IF a.failAfter < a.imaging.num_frames
         THEN [file |-> VideoFile("h5", a.imaging.name, a.failAfter,
                                  a.imaging.num_frames, FALSE),
               err |-> "IOError"]
         ELSE [file |-> VideoFile("h5", a.imaging.name, a.imaging.num_frames,
                                  a.imaging.num_frames, TRUE),
               err |-> "none"]

(* The planes assigned by the loops `for ch ... for i ...: video_to_save[ch, i] =
   plane` before an index leaves the (frames, channels, rows, columns) shape *)
MemmapPlanesAssigned(frames, channels) ==
    IF frames > channels THEN channels          \* ch = 0, i = channels is out of axis 1
    ELSE IF channels > frames THEN frames * frames  \* ch = frames is out of axis 0
    ELSE frames * channels

(* MemmapImagingExtractor.write_imaging: np.memmap(save_path, ..., mode="w+")
   creates the file or overwrites the one that is there *)
WriteImagingMemmap(f, a) ==
    LET size == a.imaging.num_frames * a.imaging.num_channels
        done == MemmapPlanesAssigned(a.imaging.num_frames, a.imaging.num_channels)
    IN IF done < size
       THEN [file |-> VideoFile("memmap", a.imaging.name, done, size, FALSE),
             err |-> "IndexError"]
       ELSE [file |-> VideoFile("memmap", a.imaging.name, done, size, TRUE),
             err |-> "none"]

ImagingExtractors ==
    [name : {"movA", "movB"}, num_frames : 1..MaxFrames, num_channels : 1..MaxChannels]

Hdf5Args ==
    {a \in [imaging : ImagingExtractors, suffix : {".h5", ".tif"}, overwrite : BOOLEAN,
            failAfter : 0..MaxFrames] : a.failAfter <= a.imaging.num_frames}

MemmapArgs == [imaging : ImagingExtractors]

InitIO ==
    /\ files \in {NoFile, VideoFile("h5", "old", 1, 1, TRUE)}
    /\ ioLast = NoCall
    /\ disk = Absent /\ last = NoCall
    /\ table = <<>> /\ dtLast = NoCall
    /\ obj = NoObject /\ handles = 0

Hdf5WriteImaging(a) ==
    LET r == WriteImagingHdf5(files, a) IN
    /\ ioLast = NoCall
    /\ files' = r.file
    /\ ioLast' = [op |-> "Hdf5ImagingExtractor.write_imaging", args |-> a,
                  overwrite |-> a.overwrite, before |-> files, err |-> r.err]
    /\ UNCHANGED <<disk, last, table, dtLast, obj, handles>>

MemmapWriteImaging(a) ==
    LET r == WriteImagingMemmap(files, a) IN
    /\ ioLast = NoCall
    /\ files' = r.file
    /\ ioLast' = [op |-> "MemmapImagingExtractor.write_imaging", args |-> a,
                  overwrite |-> FALSE, before |-> files, err |-> r.err]
    /\ UNCHANGED <<disk, last, table, dtLast, obj, handles>>

(* write_imaging has returned or raised *)
IoReturn ==
    /\ ioLast # NoCall
    /\ ioLast' = NoCall
    /\ UNCHANGED <<disk, last, table, dtLast, files, obj, handles>>

NextIO ==
    \/ \E a \in Hdf5Args : Hdf5WriteImaging(a)
    \/ \E a \in MemmapArgs : MemmapWriteImaging(a)
    \/ IoReturn

SpecIO == InitIO /\ [][NextIO]_vars

----------------------------------------------------------------------------
(* Vocabulary of the properties of write_nwb *)

StepOrder ==
    << "args", "read", "device", "optical_channel", "imaging_plane", "image_series",
       "module", "image_segmentation", "fluorescence", "plane_segmentation",
       "properties", "rois", "regions", "timestamps", "neuron_series",
       "background_series", "residuals", "images" >>

StepNo(s) == CHOOSE i \in DOMAIN StepOrder : StepOrder[i] = s

Wrote == last # NoCall /\ last.op = "write_nwb"

(* The last call was a write_nwb that read an existing container *)
Merged == Wrote /\ last.before.state = "valid" /\ StepNo(last.step) >= StepNo("device")

(* Step k of the last call was run (it may be the one that failed) *)
Executed(k) == Merged /\ (last.err = "none" \/ StepNo(last.step) >= StepNo(k))

(* Step k of the last call was run and did not fail *)
Passed(k) == Merged /\ (last.err = "none" \/ StepNo(last.step) > StepNo(k))

(* Nodes of mem that the call added (those after the nodes it read) with this name and type *)
Added(name, type) ==
    {i \in DOMAIN last.f.nwb : /\ i > Len(last.before.nodes)
                               /\ last.f.nwb[i].name = name
                               /\ last.f.nwb[i].type = type}

(* Two nodes are same-named siblings: same parent, same type, same name *)
SameNamedSiblings(nodes) ==
    {p \in (DOMAIN nodes) \X (DOMAIN nodes) :
        /\ p[1] < p[2]
        /\ nodes[p[1]].parent = nodes[p[2]].parent
        /\ nodes[p[1]].type = nodes[p[2]].type
        /\ nodes[p[1]].name = nodes[p[2]].name}

(* C1: after any sequence of write_nwb calls the stored container never holds
   two sibling entities of the same type with the same name. *)
C1_NoSameNamedSiblings ==
    disk.state = "valid" => SameNamedSiblings(disk.nodes) = {}

(* The merge-or-create rule for one entity: with no node of the requested name
   the step creates one and binds it; with exactly one, the step binds that very
   node and creates none *)
ReuseOrCreate(k, name, type, bound) ==
    Executed(k) =>
        LET m == Match(last.before.nodes, name) IN
        /\ m = <<>> => Passed(k) /\ Added(name, type) # {} /\ bound \in Added(name, type)
        /\ Len(m) = 1 => Passed(k) /\ bound = m[1] /\ Added(name, type) = {}

(* C2: for each of the eight structural entities, zero existing entities of the
   requested name means a new one is created and used, and exactly one means that
   very entity is used by the later steps and no new one is created. *)
C2_ReuseExactlyOneOrCreate ==
    Merged =>
        /\ ReuseOrCreate("device", last.args.device_name, "Device", last.f.device)
        /\ last.args.optical_channel_name # NoName /\ Executed("optical_channel") =>
              LET m == Match(last.before.nodes, last.args.optical_channel_name) IN
              /\ m = <<>> => last.args.optical_channel_name \in Range(last.f.och_new)
              /\ Len(m) = 1 => /\ last.f.och_old = m[1]
                               /\ last.args.optical_channel_name \notin Range(last.f.och_new)
        /\ ReuseOrCreate("imaging_plane", last.args.imaging_plane_name, "ImagingPlane",
                         last.f.imaging_plane)
        /\ ReuseOrCreate("image_series", last.args.image_series_name, "TwoPhotonSeries",
                         last.f.image_series)
        /\ ReuseOrCreate("module", last.args.processing_module_name, "ProcessingModule",
                         last.f.mod)
        /\ ReuseOrCreate("image_segmentation", "ImageSegmentation", "ImageSegmentation",
                         last.f.img_seg)
        /\ ReuseOrCreate("fluorescence", "Fluorescence", "Fluorescence", last.f.fl)
        /\ ReuseOrCreate("plane_segmentation", "PlaneSegmentation", "PlaneSegmentation",
                         last.f.ps)

(* The ambiguity rule for one entity: more than one node of the requested name makes
   the step fail with the ambiguity error, nothing of that name having been added *)
AmbiguityRejected(k, name, type) ==
    Executed(k) /\ Len(Match(last.before.nodes, name)) > 1 =>
        /\ last.err = "Ambiguous" /\ last.step = k
        /\ Added(name, type) = {}
        /\ disk = last.before

(* C3: for each of the eight structural entities, more than one existing entity of
   the requested name makes write_nwb fail with an ambiguity error before anything
   is created or changed in that step. *)
C3_AmbiguityFailsBeforeMutation ==
    Merged =>
        /\ AmbiguityRejected("device", last.args.device_name, "Device")
        /\ AmbiguityRejected("optical_channel", last.args.optical_channel_name, "OpticalChannel")
        /\ AmbiguityRejected("imaging_plane", last.args.imaging_plane_name, "ImagingPlane")
        /\ AmbiguityRejected("image_series", last.args.image_series_name, "TwoPhotonSeries")
        /\ AmbiguityRejected("module", last.args.processing_module_name, "ProcessingModule")
        /\ AmbiguityRejected("image_segmentation", "ImageSegmentation", "ImageSegmentation")
        /\ AmbiguityRejected("fluorescence", "Fluorescence", "Fluorescence")
        /\ AmbiguityRejected("plane_segmentation", "PlaneSegmentation", "PlaneSegmentation")

(* C4: a second write_nwb on the same target with the same entity names fails with
   the already-exists error and leaves the stored container as it was. *)
C4_SecondWriteAlreadyExists ==
    Wrote /\ last.before.state = "valid" /\ last.before.writes >= 1
          /\ last.args.ext = ".nwb" /\ EntityNames(last.args) = last.before.names
       => last.err = "AlreadyExists" /\ disk = last.before

(* A sequence of table indices is a contiguous ascending range *)
Contiguous(r) == \A i \in 1..(Len(r) - 1) : r[i + 1] = r[i] + 1

(* C6: after a write_nwb that populated the ROI table, the neuron and background
   region handles are two disjoint contiguous index ranges of that table, the
   background range starts right after the neuron range, and the rows of the neuron
   range carry the extractor's ROI ids in the extractor's order. *)
C6_RegionsContiguousOrdered ==
    Wrote /\ last.err = "none" =>
        LET rows == last.f.nwb[last.f.ps].rows
            nr == last.f.neuron_rois
            br == last.f.background_rois
            ids == last.args.ex.roi_idx
        IN /\ Contiguous(nr) /\ Contiguous(br)
           /\ Range(nr) \cap Range(br) = {}
           /\ (nr # <<>> /\ br # <<>>) => br[1] = nr[Len(nr)] + 1
           /\ \A i \in Range(nr) \cup Range(br) : i >= 0 /\ i < Len(rows)
           /\ Len(nr) = Len(ids)
           /\ \A k \in DOMAIN nr : nr[k] < Len(rows) => rows[nr[k] + 1].id = ids[k]

(* C5: writing an extractor into a path that does not exist yet and constructing
   NwbSegmentationExtractor from that path yields an extractor that
   check_segmentations_equal reports equal to the original. *)
C5_RoundTripFresh ==
    Wrote /\ last.before.state = "absent" /\ last.args.ext = ".nwb" =>
        /\ last.err = "none"
        /\ ReadNwb(disk).err = "none"
        /\ CheckSegmentationsEqual(last.args.ex, ReadNwb(disk))

SetCall == dtLast # NoCall /\ dtLast.op = "set_dynamic_table_property"

(* C8: set_dynamic_table_property with index=False on existing row ids changes only
   cells of the named column at those rows: every other row keeps its prior value
   (the default when the column is new), and no other column and no row id changes. *)
C8_OnlyNamedCellsChange ==
    SetCall /\ dtLast.err = "none" /\ ~dtLast.args.index =>
        LET b == dtLast.before
            n == dtLast.args.property_name
        IN /\ table.ids = b.ids
           /\ DOMAIN table.cols = DOMAIN b.cols \cup {n}
           /\ \A c \in DOMAIN b.cols : c # n => table.cols[c] = b.cols[c]
           /\ Len(table.cols[n].data) =
                 (IF n \in DOMAIN b.cols THEN Len(b.cols[n].data) ELSE Len(b.ids))
           /\ \A r \in DOMAIN table.cols[n].data :
                 b.ids[r] \notin Range(dtLast.args.row_ids) =>
                    table.cols[n].data[r] =
                       (IF n \in DOMAIN b.cols THEN b.cols[n].data[r]
                        ELSE dtLast.args.default_value)

(* A call that updated one row of a column and left another row alone *)
C8_Witness ==
    /\ SetCall /\ dtLast.err = "none" /\ ~dtLast.args.index
    /\ dtLast.args.row_ids # <<>>
    /\ dtLast.args.property_name \in DOMAIN dtLast.before.cols
    /\ table # dtLast.before
    /\ \E r \in DOMAIN table.ids : table.ids[r] \notin Range(dtLast.args.row_ids)

(* C9: set_dynamic_table_property fails with a validation error whenever a supplied
   row id is not an id of the table, or row_ids and values differ in length with
   index=False, and then the table is exactly as it was. *)
C9_InvalidInputRejectedUnchanged ==
    SetCall /\ dtLast.args.idsAreInts
            /\ (\/ \E k \in DOMAIN dtLast.args.row_ids :
                      dtLast.args.row_ids[k] \notin Range(dtLast.before.ids)
                \/ (Len(dtLast.args.row_ids) # Len(dtLast.args.values) /\ ~dtLast.args.index))
       => dtLast.err = "ValueError" /\ table = dtLast.before

(* A rejected call whose ids were all known: only the lengths differed, against a
   table that has the column *)
C9_Witness ==
    /\ SetCall /\ dtLast.err = "ValueError"
    /\ dtLast.args.row_ids # <<>> /\ dtLast.args.values # <<>>
    /\ \A k \in DOMAIN dtLast.args.row_ids : dtLast.args.row_ids[k] \in Range(dtLast.before.ids)
    /\ dtLast.args.property_name \in DOMAIN dtLast.before.cols

(* C10: every imaging writer (Hdf5ImagingExtractor.write_imaging and
   MemmapImagingExtractor.write_imaging) called without overwrite on a save path
   that already exists as a file fails with the already-exists error and leaves
   the file's content unchanged. *)
C10_NoOverwriteLeavesFile ==
    ioLast # NoCall /\ ioLast.before.exists /\ ~ioLast.overwrite
                    /\ (ioLast.op = "Hdf5ImagingExtractor.write_imaging"
                           => ioLast.args.suffix \in {".h5", ".hdf5"})
       => ioLast.err = "FileExistsError" /\ files = ioLast.before

(* Exactly one timing mode: a rate (with its starting time), or timestamps *)
ExactlyOneTimingMode(t) == (t.rate # NoRate) # t.hasStamps

(* The response series of a container *)
ResponseSeries(nodes) == {i \in DOMAIN nodes : nodes[i].type = "RoiResponseSeries"}

(* C7: every response series the writer creates, stored or still in memory, has
   exactly one timing mode set, a rate with a starting time or a timestamp array;
   an extractor constructed with both or with neither is rejected. *)
C7_ExactlyOneTimingMode ==
    /\ \A i \in ResponseSeries(disk.nodes) : ExactlyOneTimingMode(disk.nodes[i].timing)
    /\ Wrote => \A i \in ResponseSeries(last.f.nwb) : ExactlyOneTimingMode(last.f.nwb[i].timing)
    /\ (last # NoCall /\ last.op = "NewExtractSegmentationExtractor") =>
          ((last.sampling_frequency = NoRate) = (last.timestamps = NoStamps)
              => last.err # "none")

(* A write_nwb call that created its two response series and stored them *)
C7_Witness ==
    /\ Wrote /\ last.err = "none"
    /\ \E i \in ResponseSeries(disk.nodes) :
          /\ i > Len(last.before.nodes)
          /\ disk.nodes[i].name = last.args.neuron_roi_response_series_name
          /\ disk.nodes[i].timing.rate = last.args.ex.rate

----------------------------------------------------------------------------
(* C11: whenever Hdf5ImagingExtractor.write_imaging returns or raises, the save
   path holds either exactly what it held before the call or the complete new
   video, never a partially written file and never nothing where a file was. *)
C11_WriteAllOrNothing ==
    ioLast # NoCall /\ ioLast.op = "Hdf5ImagingExtractor.write_imaging" =>
        \/ files = ioLast.before
        \/ /\ files.exists /\ files.complete
           /\ files.source = ioLast.args.imaging.name
           /\ files.planes = ioLast.args.imaging.num_frames

----------------------------------------------------------------------------
(* The imaging readers: Hdf5ImagingExtractor.__init__, __del__ and get_frames,
   MemmapImagingExtractor.__init__ and get_frames, on one stored video *)

MaxStored == 3
MaxIdxs == 2

(* An HDF5 file as the constructor sees it: whether it holds the 'mov' dataset,
   whether that carries the 'fr' attribute, the frames stored and the number of
   dimensions of the dataset *)
H5Video(hasMov, hasFr, num_frames, ndim) ==
    [hasMov |-> hasMov, hasFr |-> hasFr, num_frames |-> num_frames, ndim |-> ndim]

H5Videos ==
    {H5Video(m, fr, n, d) : m \in BOOLEAN, fr \in BOOLEAN, n \in 1..MaxStored, d \in {3, 4}}

Hdf5InitArgs == [suffix : {".h5", ".tif"}, hasRate : BOOLEAN]

(* Hdf5ImagingExtractor.__init__: the error raised, whether h5py.File was opened
   (line 51; nothing in __init__ closes it), and the object built *)
Hdf5Init(file, a) ==
    IF a.suffix \notin {".h5", ".hdf5"}
    THEN [err |-> "AssertionError", opened |-> FALSE, obj |-> NoObject]
    ELSE IF ~file.hasMov
    THEN [err |-> "Exception", opened |-> TRUE, obj |-> NoObject]
    ELSE IF ~a.hasRate /\ ~file.hasFr
    THEN [err |-> "AssertionError", opened |-> TRUE, obj |-> NoObject]
    ELSE [err |-> "none", opened |-> TRUE,
          obj |-> [class |-> "Hdf5ImagingExtractor", num_frames |-> file.num_frames,
                   _data_has_channels_axis |-> file.ndim > 3]]

(* np.min and np.max of a non-empty index list *)
MinOf(s) == CHOOSE x \in Range(s) : \A y \in Range(s) : x <= y
MaxOf(s) == CHOOSE x \in Range(s) : \A y \in Range(s) : x >= y

(* A bound of a slice over n items, as Python normalises it *)
SliceBound(b, n) == IF b < 0 THEN (IF b + n < 0 THEN 0 ELSE b + n)
                    ELSE IF b > n THEN n ELSE b

(* The frame indices that video[start:stop] yields on n frames *)
LazySlice(start, stop, n) == PyRange(SliceBound(start, n), SliceBound(stop, n))

FrameRequests ==
    {[given |-> FALSE, frame_idxs |-> <<>>]}
    \cup {[given |-> TRUE, frame_idxs |-> q] :
             q \in UNION {[1..k -> -1..(MaxStored + 1)] : k \in 1..MaxIdxs}}

ChannelArgs == {"None", "0"}

(* Hdf5ImagingExtractor.get_frames: the error raised and the frames of the
   slice returned, by index.  Without a channel axis the third condition reads
   self.data_has_channel_axis, an attribute no line assigns. *)
Hdf5GetFramesResult(o, r, channel) ==
    LET slice_start == IF r.given THEN MinOf(r.frame_idxs) ELSE 0
        slice_stop == IF r.given
                      THEN (IF MaxOf(r.frame_idxs) + 1 < o.num_frames
                            THEN MaxOf(r.frame_idxs) + 1 ELSE o.num_frames)
                      ELSE o.num_frames
    IN IF o._data_has_channels_axis
       THEN [err |-> "none", frames |-> LazySlice(slice_start, slice_stop, o.num_frames)]
       ELSE [err |-> "AttributeError", frames |-> <<>>]

(* MemmapImagingExtractor.get_frames: __init__ is `pass`, so neither
   self._num_frames nor self._video exists *)
MemmapGetFramesResult(o, r) == [err |-> "AttributeError", frames |-> <<>>]

InitRd ==
    /\ files \in H5Videos
    /\ ioLast = NoCall
    /\ obj = NoObject /\ handles = 0
    /\ disk = Absent /\ last = NoCall
    /\ table = <<>> /\ dtLast = NoCall

Hdf5Construct(a) ==
    LET r == Hdf5Init(files, a) IN
    /\ obj = NoObject /\ handles = 0 /\ ioLast = NoCall
    /\ obj' = r.obj
    /\ handles' = IF r.opened THEN handles + 1 ELSE handles
    /\ ioLast' = [op |-> "Hdf5ImagingExtractor", args |-> a, err |-> r.err]
    /\ UNCHANGED <<disk, last, table, dtLast, files>>

(* __del__, run when the object (or what a failed __init__ left of it) is
   collected: self._file.close() *)
Hdf5Del ==
    /\ handles > 0
    /\ handles' = 0
    /\ obj' = NoObject
    /\ ioLast' = [op |-> "Hdf5ImagingExtractor.__del__", err |-> "none"]
    /\ UNCHANGED <<disk, last, table, dtLast, files>>

Hdf5GetFrames(r, channel) ==
    LET res == Hdf5GetFramesResult(obj, r, channel) IN
    /\ obj.class = "Hdf5ImagingExtractor"
    /\ ioLast' = [op |-> "Hdf5ImagingExtractor.get_frames", args |-> r, channel |-> channel,
                  err |-> res.err, frames |-> res.frames]
    /\ UNCHANGED <<disk, last, table, dtLast, files, obj, handles>>

MemmapConstruct ==
    /\ obj = NoObject /\ handles = 0 /\ ioLast = NoCall
    /\ obj' = [class |-> "MemmapImagingExtractor"]
    /\ ioLast' = [op |-> "MemmapImagingExtractor", err |-> "none"]
    /\ UNCHANGED <<disk, last, table, dtLast, files, handles>>

MemmapGetFrames(r) ==
    LET res == MemmapGetFramesResult(obj, r) IN
    /\ obj.class = "MemmapImagingExtractor"
    /\ ioLast' = [op |-> "MemmapImagingExtractor.get_frames", args |-> r,
                  err |-> res.err, frames |-> res.frames]
    /\ UNCHANGED <<disk, last, table, dtLast, files, obj, handles>>

NextRd ==
    \/ \E a \in Hdf5InitArgs : Hdf5Construct(a)
    \/ Hdf5Del
    \/ \E r \in FrameRequests, c \in ChannelArgs : Hdf5GetFrames(r, c)
    \/ MemmapConstruct
    \/ \E r \in FrameRequests : MemmapGetFrames(r)

SpecRd == InitRd /\ [][NextRd]_vars

(* C12: every file handle opened by a read or write call is closed by the time
   the call returns or raises; here, after Hdf5ImagingExtractor's constructor
   has returned or raised no handle is open. *)
C12_NoHandleOutlivesCall ==
    ioLast # NoCall /\ ioLast.op = "Hdf5ImagingExtractor" => handles = 0

(* C13: get_frames with any requested frame index outside [0, num_frames) fails
   with a range error and returns no data. *)
C13_OutOfRangeRejected ==
    /\ (ioLast # NoCall /\ ioLast.op = "Hdf5ImagingExtractor.get_frames" /\ ioLast.args.given
          /\ \E k \in DOMAIN ioLast.args.frame_idxs :
                ioLast.args.frame_idxs[k] \notin 0..(obj.num_frames - 1))
       => ioLast.err = "IndexError" /\ ioLast.frames = <<>>
    /\ (ioLast # NoCall /\ ioLast.op = "MemmapImagingExtractor.get_frames" /\ ioLast.args.given)
       => ioLast.err # "none" /\ ioLast.frames = <<>>

(* C14: get_frames over the frames of a sub-range [start, stop) with
   0 <= start < stop <= num_frames returns exactly stop - start frames, all of
   them frames of [start, stop). *)
C14_LazySliceExact ==
    (ioLast # NoCall /\ ioLast.op = "Hdf5ImagingExtractor.get_frames" /\ ioLast.args.given
       /\ Contiguous(ioLast.args.frame_idxs)
       /\ ioLast.args.frame_idxs[1] >= 0
       /\ ioLast.args.frame_idxs[Len(ioLast.args.frame_idxs)] < obj.num_frames)
    => /\ ioLast.err = "none"
       /\ ioLast.frames = ioLast.args.frame_idxs

----------------------------------------------------------------------------
(* VideoStructure (roiextractors.extraction_tools): the axis validation, the
   frame shape and build_video_shape *)

MaxVideoFrames == 2

Rows == 10
Columns == 5
NumChannels == 3

AxisValues == -1..4

VideoStructureArgs ==
    [rows_axis : AxisValues, columns_axis : AxisValues,
     num_channels_axis : AxisValues, frame_axis : AxisValues]

(* As ValidateVideoStructure, without the test of the range *)
ValidateVideoStructureUniqueOnly(a) ==
    LET axis_values == {a.rows_axis, a.columns_axis, a.num_channels_axis, a.frame_axis}
    IN IF Cardinality(axis_values) # 4 THEN "ValueError" ELSE "none"

(* Each axis is a unique value between 0 and 3 (inclusive), else ValueError *)
ValidateVideoStructure(a) ==
    LET axis_values == {a.rows_axis, a.columns_axis, a.num_channels_axis, a.frame_axis}
    IN IF Cardinality(axis_values) # 4 THEN "ValueError"
       ELSE IF \E axis \in axis_values : axis < 0 \/ axis > 3 THEN "ValueError"
       ELSE "none"

(* list.pop(i) and list.insert(i, x), i counted from 0 *)
Pop(s, i) == [k \in 1..(Len(s) - 1) |-> IF k <= i THEN s[k] ELSE s[k + 1]]
Insert(s, i, x) ==
    [k \in 1..(Len(s) + 1) |-> IF k <= i THEN s[k] ELSE IF k = i + 1 THEN x ELSE s[k - 1]]

(* frame_shape: the three sizes at their axes, the frame axis popped *)
FrameShape(a) ==
    LET all == [k \in 1..4 |-> IF k - 1 = a.rows_axis THEN Rows
                               ELSE IF k - 1 = a.columns_axis THEN Columns
                               ELSE IF k - 1 = a.num_channels_axis THEN NumChannels
                               ELSE 0]
    IN Pop(all, a.frame_axis)

(* As BuildVideoShape, with the frame count put last *)
BuildVideoShapeAppend(vs, n_frames) == Append(vs.frame_shape, n_frames)

(* build_video_shape(n_frames): frame_shape with n_frames inserted at frame_axis *)
BuildVideoShape(vs, n_frames) == Insert(vs.frame_shape, vs.frame_axis, n_frames)

InitVS ==
    /\ obj = NoObject /\ ioLast = NoCall /\ handles = 0
    /\ files = <<>>
    /\ disk = Absent /\ last = NoCall
    /\ table = <<>> /\ dtLast = NoCall

NewVideoStructure(a) ==
    LET err == ValidateVideoStructure(a) IN
    /\ obj = NoObject /\ ioLast = NoCall
    /\ obj' = IF err # "none" THEN NoObject
              ELSE [class |-> "VideoStructure", rows_axis |-> a.rows_axis,
                    columns_axis |-> a.columns_axis,
                    num_channels_axis |-> a.num_channels_axis,
                    frame_axis |-> a.frame_axis, frame_shape |-> FrameShape(a),
                    number_of_pixels_per_frame |-> Rows * Columns * NumChannels]
    /\ ioLast' = [op |-> "VideoStructure", args |-> a, err |-> err]
    /\ UNCHANGED <<disk, last, table, dtLast, files, handles>>

CallBuildVideoShape(n) ==
    /\ obj.class = "VideoStructure"
    /\ ioLast' = [op |-> "build_video_shape", n_frames |-> n,
                  shape |-> BuildVideoShape(obj, n)]
    /\ UNCHANGED <<disk, last, table, dtLast, files, obj, handles>>

NextVS ==
    \/ \E a \in VideoStructureArgs : NewVideoStructure(a)
    \/ \E n \in 0..MaxVideoFrames : CallBuildVideoShape(n)

SpecVS == InitVS /\ [][NextVS]_vars

(* C15: constructing a VideoStructure fails with the configuration error whenever
   the four axis indices hold a repeated value or a value outside 0..3, and
   succeeds for every permutation of {0, 1, 2, 3}. *)
C15_AxesValidated ==
    ioLast # NoCall /\ ioLast.op = "VideoStructure" =>
        LET ax == << ioLast.args.rows_axis, ioLast.args.columns_axis,
                     ioLast.args.num_channels_axis, ioLast.args.frame_axis >>
            bad == \/ \E i, j \in 1..4 : i # j /\ ax[i] = ax[j]
                   \/ \E i \in 1..4 : ax[i] \notin 0..3
        IN /\ bad => ioLast.err = "ValueError" /\ obj = NoObject
           /\ ~bad => ioLast.err = "none" /\ obj.class = "VideoStructure"

(* Four distinct axis indices, one of them out of range, were refused *)
C15_Witness ==
    /\ ioLast # NoCall /\ ioLast.op = "VideoStructure" /\ ioLast.err = "ValueError"
    /\ Cardinality({ioLast.args.rows_axis, ioLast.args.columns_axis,
                    ioLast.args.num_channels_axis, ioLast.args.frame_axis}) = 4
    /\ ioLast.args.frame_axis = 4

(* C16: for every valid axis permutation and frame count n, build_video_shape(n)
   is a 4-tuple with n at frame_axis, rows at rows_axis, columns at columns_axis
   and num_channels at num_channels_axis, and frame_shape is that tuple with the
   frame-axis entry removed. *)
C16_VideoShapePlacement ==
    ioLast # NoCall /\ ioLast.op = "build_video_shape" =>
        LET shape == ioLast.shape IN
        /\ Len(shape) = 4
        /\ shape[obj.frame_axis + 1] = ioLast.n_frames
        /\ shape[obj.rows_axis + 1] = Rows
        /\ shape[obj.columns_axis + 1] = Columns
        /\ shape[obj.num_channels_axis + 1] = NumChannels
        /\ Len(obj.frame_shape) = 3
        /\ \A k \in 1..3 :
              obj.frame_shape[k] = shape[IF k <= obj.frame_axis THEN k ELSE k + 1]

(* A shape built for a structure whose frame axis lies between the others *)
C16_Witness ==
    /\ ioLast # NoCall /\ ioLast.op = "build_video_shape"
    /\ obj.frame_axis = 2 /\ obj.rows_axis = 0
    /\ ioLast.n_frames = MaxVideoFrames
    /\ ioLast.shape = <<Rows, Columns, MaxVideoFrames, NumChannels>>

----------------------------------------------------------------------------
(* NwbSegmentationExtractor: the accessors, on the fields __init__ assigns *)

MaxRoiArgs == 2

(* Positions (from 0) of the requested ids that roi_idx holds, in the order
   requested; ids it does not hold are skipped:
   ROI_idx = [np.where(np.array(i) == self.roi_idx)[0] for i in ROI_ids]
   ele = [i for i, j in enumerate(ROI_idx) if j.size == 0]
   ROI_idx_ = [j[0] for i, j in enumerate(ROI_idx) if i not in ele] *)
RECURSIVE RoiPositions(_, _)
RoiPositions(roi_idx, ROI_ids) ==
    IF ROI_ids = <<>> THEN <<>>
    ELSE IF Head(ROI_ids) \in Range(roi_idx)
    THEN <<IndexOf(roi_idx, Head(ROI_ids))>> \o RoiPositions(roi_idx, Tail(ROI_ids))
    ELSE RoiPositions(roi_idx, Tail(ROI_ids))

(* no_rois *)
NoRois(o) == Len(o.roi_idx)

(* accepted_list *)
AcceptedList(o) ==
    IF o._accepted_list.isNone THEN PyRange(0, NoRois(o)) ELSE o._accepted_list.list

(* As RejectedList, without the test against the accepted list *)
RejectedListAll(o) == PyRange(0, NoRois(o))

(* rejected_list *)
RejectedList(o) ==
    SelectSeq(PyRange(0, NoRois(o)), LAMBDA a : a \notin Range(AcceptedList(o)))

(* The entries of a per-ROI array at the given positions, each named by the
   ROI it belongs to: self.roi_response[ROI_idx_, ...] and the like *)
TakeRois(o, positions) == [k \in DOMAIN positions |-> o.roi_idx[positions[k] + 1]]

(* get_traces, get_roi_locations, get_image_masks: positions from the ids, all
   positions when ROI_ids is None *)
PerRoiAccessor(o, r) ==
    IF r.given THEN TakeRois(o, RoiPositions(o.roi_idx, r.ROI_ids))
    ELSE TakeRois(o, PyRange(0, NoRois(o)))

(* np.append(temp, self.pixel_masks[self.pixel_masks[:, 3] == roiid, :]) for each
   roiid in turn *)
RECURSIVE PixelRows(_, _)
PixelRows(pixel_masks, tags) ==
    IF tags = <<>> THEN <<>>
    ELSE SelectSeq(pixel_masks, LAMBDA row : row.roi = Head(tags))
         \o PixelRows(pixel_masks, Tail(tags))

(* get_pixel_masks: with ROI_ids None the loop runs over the ROI ids, otherwise
   over the positions found for the requested ids *)
GetPixelMasksResult(o, r) ==
    IF r.given THEN PixelRows(o.pixel_masks, RoiPositions(o.roi_idx, r.ROI_ids))
    ELSE PixelRows(o.pixel_masks, o.roi_idx)

(* get_num_channels: len(self.channel_names) *)
GetNumChannelsResult(o) ==
    IF o.channel_names.isNone THEN [err |-> "TypeError", value |-> 0]
    ELSE [err |-> "none", value |-> Len(o.channel_names.perPlane)]

(* One pixel-mask row per ROI, and a second one for the first ROI; column 3
   of a row is the id of its ROI *)
PixelMasksOf(roi_idx) ==
    [k \in DOMAIN roi_idx |-> [pix |-> k, roi |-> roi_idx[k]]]
    \o <<[pix |-> Len(roi_idx) + 1, roi |-> roi_idx[1]]>>

AcceptedSettings(n) ==
    {[isNone |-> TRUE, list |-> <<>>]}
    \cup {[isNone |-> FALSE, list |-> q] : q \in {<<>>, <<0>>, PyRange(0, n)} \cup
                                              (IF n > 1 THEN {<<1>>} ELSE {})}

(* Extractor objects as a successful __init__ leaves them; _accepted_list is
   the attribute the accepted_list property reads *)
SegmentationObjects ==
    {[class |-> "NwbSegmentationExtractor", roi_idx |-> ids, _accepted_list |-> acc,
      pixel_masks |-> PixelMasksOf(ids), channel_names |-> ch] :
        ids \in {<<0, 1>>, <<5, 3>>, <<1, 0>>, <<4>>},
        acc \in AcceptedSettings(2),
        ch \in {[isNone |-> TRUE, perPlane |-> <<>>],
                [isNone |-> FALSE, perPlane |-> << <<"ChA">> >>]}}

RoiRequests ==
    {[given |-> FALSE, ROI_ids |-> <<>>]}
    \cup {[given |-> TRUE, ROI_ids |-> q] :
             q \in UNION {[1..k -> {0, 1, 3, 5, 9}] : k \in 1..MaxRoiArgs}}

InitAcc ==
    /\ obj \in {o \in SegmentationObjects :
                   o._accepted_list.isNone \/ Range(o._accepted_list.list) \subseteq
                                                 0..(Len(o.roi_idx) - 1)}
    /\ last = NoCall
    /\ disk = Absent
    /\ table = <<>> /\ dtLast = NoCall
    /\ files = <<>> /\ ioLast = NoCall /\ handles = 0

GetAcceptedRejected ==
    /\ last = NoCall
    /\ last' = [op |-> "accepted_rejected", accepted |-> AcceptedList(obj),
                rejected |-> RejectedList(obj)]
    /\ UNCHANGED <<disk, table, dtLast, files, ioLast, obj, handles>>

GetTraces(r) ==
    /\ last = NoCall
    /\ last' = [op |-> "get_traces", args |-> r, err |-> "none",
                result |-> PerRoiAccessor(obj, r)]
    /\ UNCHANGED <<disk, table, dtLast, files, ioLast, obj, handles>>

GetRoiLocations(r) ==
    /\ last = NoCall
    /\ last' = [op |-> "get_roi_locations", args |-> r, err |-> "none",
                result |-> PerRoiAccessor(obj, r)]
    /\ UNCHANGED <<disk, table, dtLast, files, ioLast, obj, handles>>

GetImageMasks(r) ==
    /\ last = NoCall
    /\ last' = [op |-> "get_image_masks", args |-> r, err |-> "none",
                result |-> PerRoiAccessor(obj, r)]
    /\ UNCHANGED <<disk, table, dtLast, files, ioLast, obj, handles>>

GetPixelMasks(r) ==
    /\ last = NoCall
    /\ last' = [op |-> "get_pixel_masks", args |-> r, err |-> "none",
                result |-> GetPixelMasksResult(obj, r)]
    /\ UNCHANGED <<disk, table, dtLast, files, ioLast, obj, handles>>

GetNumChannels ==
    /\ last = NoCall
    /\ last' = [op |-> "get_num_channels", err |-> GetNumChannelsResult(obj).err,
                value |-> GetNumChannelsResult(obj).value]
    /\ UNCHANGED <<disk, table, dtLast, files, ioLast, obj, handles>>

NextAcc ==
    \/ GetAcceptedRejected
    \/ \E r \in RoiRequests : GetTraces(r)
    \/ \E r \in RoiRequests : GetRoiLocations(r)
    \/ \E r \in RoiRequests : GetImageMasks(r)
    \/ \E r \in RoiRequests : GetPixelMasks(r)
    \/ GetNumChannels

SpecAcc == InitAcc /\ [][NextAcc]_vars

(* C17: the accepted and the rejected list partition range(num_rois): no index in
   both, every index 0..num_rois-1 in one of them, and with no accepted list set
   the accepted list is every index and the rejected list is empty. *)
C17_AcceptedRejectedPartition ==
    last # NoCall /\ last.op = "accepted_rejected" =>
        LET all == 0..(Len(obj.roi_idx) - 1) IN
        /\ Range(last.accepted) \cap Range(last.rejected) = {}
        /\ Range(last.accepted) \cup Range(last.rejected) = all
        /\ obj._accepted_list.isNone =>
              last.accepted = PyRange(0, Len(obj.roi_idx)) /\ last.rejected = <<>>

(* The lists of an extractor with two ROIs of which the second alone is accepted *)
C17_Witness ==
    /\ last # NoCall /\ last.op = "accepted_rejected"
    /\ last.accepted = <<1>> /\ last.rejected = <<0>>

(* The requested ids present in roi_idx, in the order requested *)
PresentIds(o, ROI_ids) == SelectSeq(ROI_ids, LAMBDA x : x \in Range(o.roi_idx))

(* C18: with ids absent from get_roi_ids() among the requested ids, the mask,
   trace and location accessors do not raise and return exactly the entries of
   the ids that are present, in the order requested. *)
C18_AbsentIdsDropped ==
    (last # NoCall /\ last.op \in {"get_traces", "get_roi_locations", "get_image_masks",
                                  "get_pixel_masks"}
       /\ last.args.given
       /\ \E k \in DOMAIN last.args.ROI_ids : last.args.ROI_ids[k] \notin Range(obj.roi_idx))
    => /\ last.err = "none"
       /\ last.op # "get_pixel_masks" => last.result = PresentIds(obj, last.args.ROI_ids)
       /\ last.op = "get_pixel_masks" =>
             last.result = PixelRows(obj.pixel_masks, PresentIds(obj, last.args.ROI_ids))

(* Errors of the constructor that report missing data *)
MissingDataErrors == {"NoModule", "NoRoiResponse"}

Constructed == last # NoCall /\ last.op = "NwbSegmentationExtractor"
                    /\ last.before.state = "valid"

(* C19: constructing NwbSegmentationExtractor from a container with no ROI table
   fails with a missing-data error, and so does constructing it from a container
   with no response series; neither goes on to fail with another error. *)
C19_MissingDataRejected ==
    Constructed =>
        /\ Match(last.before.nodes, "PlaneSegmentation") = <<>>
              => last.err \in MissingDataErrors
        /\ OfType(last.before.nodes, "RoiResponseSeries") = <<>>
              => last.err \in MissingDataErrors

(* C20: constructing NwbSegmentationExtractor from a container with an ROI table
   and a response series but no imaging plane succeeds with channel_names = None,
   and get_num_channels on that extractor returns without raising. *)
C20_NoImagingPlaneDegrades ==
    (Constructed /\ Match(last.before.nodes, "PlaneSegmentation") # <<>>
                 /\ OfType(last.before.nodes, "RoiResponseSeries") # <<>>
                 /\ OfType(last.before.nodes, "ImagingPlane") = <<>>)
    => /\ last.err = "none"
       /\ last.r.channel_names.isNone
       /\ obj # NoObject /\ GetNumChannelsResult(obj).err = "none"

----------------------------------------------------------------------------
(* NwbSegmentationExtractor.roi_locs: the location of each ROI from its image
   mask *)

GridRows == 2
GridCols == 2
MaxWeight == 1
MaxLocRois == 2

Pixels == (0..(GridRows - 1)) \X (0..(GridCols - 1))

(* raw_images[:, :, i]: a weight for every pixel *)
ImageMasks == [Pixels -> 0..MaxWeight]

(* np.amax *)
AMax(img) == CHOOSE w \in {img[p] : p \in Pixels} : \A p \in Pixels : img[p] <= w

(* np.where(img == np.amax(img)): the pixels holding the maximum *)
WhereMax(img) == {p \in Pixels : img[p] = AMax(img)}

(* The k-th smallest (k from 1) of the coordinates of a set of pixels along an
   axis (1 rows, 2 columns), each pixel counted *)
KthCoordinate(ps, axis, k) ==
    CHOOSE v \in {p[axis] : p \in ps} :
        /\ Cardinality({p \in ps : p[axis] < v}) < k
        /\ Cardinality({p \in ps : p[axis] <= v}) >= k

(* Twice np.median of those coordinates: the middle one, or the sum of the two
   middle ones *)
Median2(ps, axis) ==
    LET n == Cardinality(ps) IN
    IF n % 2 = 1 THEN 2 * KthCoordinate(ps, axis, (n + 1) \div 2)
    ELSE KthCoordinate(ps, axis, n \div 2) + KthCoordinate(ps, axis, n \div 2 + 1)

(* As RoiLocs, with the first pixel holding the maximum instead of the median *)
RoiLocsFirstMax(o) ==
    [i \in DOMAIN o.raw_images |->
        LET ps == WhereMax(o.raw_images[i])
            first == CHOOSE p \in ps : \A q \in ps :
                         p[1] < q[1] \/ (p[1] = q[1] /\ p[2] <= q[2])
        IN first]

(* roi_locs: per ROI <<row, column>>; the medians are stored into an array of
   dtype int, which drops their fraction *)
RoiLocs(o) ==
    [i \in DOMAIN o.raw_images |->
        LET ps == WhereMax(o.raw_images[i])
        IN << Median2(ps, 1) \div 2, Median2(ps, 2) \div 2 >>]

LocObjects ==
    {[class |-> "NwbSegmentationExtractor", roi_idx |-> PyRange(0, n), raw_images |-> imgs] :
        n \in 1..MaxLocRois, imgs \in UNION {[1..k -> ImageMasks] : k \in 1..MaxLocRois}}

InitLoc ==
    /\ obj \in {o \in LocObjects : Len(o.roi_idx) = Len(o.raw_images)}
    /\ last = NoCall
    /\ disk = Absent
    /\ table = <<>> /\ dtLast = NoCall
    /\ files = <<>> /\ ioLast = NoCall /\ handles = 0

GetAllRoiLocations ==
    /\ last = NoCall
    /\ last' = [op |-> "roi_locs", err |-> "none", result |-> RoiLocs(obj)]
    /\ UNCHANGED <<disk, table, dtLast, files, ioLast, obj, handles>>

NextLoc == GetAllRoiLocations

SpecLoc == InitLoc /\ [][NextLoc]_vars

Located == last # NoCall /\ last.op = "roi_locs"

(* C21: for every ROI get_roi_locations returns the median of the row indices and
   the median of the column indices of all pixels whose weight equals the ROI's
   maximum weight, as a 2 x num_rois integer array. *)
C21_LocationIsMedian ==
    Located =>
        /\ Len(last.result) = Len(obj.roi_idx)
        /\ \A i \in DOMAIN last.result :
              LET ps == {p \in Pixels : \A q \in Pixels :
                                           obj.raw_images[i][q] <= obj.raw_images[i][p]}
              IN /\ 2 * last.result[i][1] = Median2(ps, 1)
                 /\ 2 * last.result[i][2] = Median2(ps, 2)

(* C21, amended: for every ROI get_roi_locations returns the median of the row
   indices and the median of the column indices of all pixels whose weight equals
   the ROI's maximum weight, each with its fraction dropped: the integer part of
   the median, in a 2 x num_rois integer array. *)
C21_LocationIsMedianTruncated ==
    Located =>
        /\ Len(last.result) = Len(obj.roi_idx)
        /\ \A i \in DOMAIN last.result :
              LET ps == {p \in Pixels : \A q \in Pixels :
                                           obj.raw_images[i][q] <= obj.raw_images[i][p]}
              IN /\ 2 * last.result[i][1] <= Median2(ps, 1)
                 /\ Median2(ps, 1) < 2 * last.result[i][1] + 2
                 /\ 2 * last.result[i][2] <= Median2(ps, 2)
                 /\ Median2(ps, 2) < 2 * last.result[i][2] + 2

(* The location of an ROI whose maximum is held by the two pixels of the second column *)
C21_Witness ==
    /\ Located
    /\ WhereMax(obj.raw_images[1]) = {<<0, 1>>, <<1, 1>>}
    /\ last.result[1] = <<0, 1>>

----------------------------------------------------------------------------
(* Properties of what a successful write_nwb stores *)

Stored == Wrote /\ last.err = "none"

(* The rows of the ROI table the call used *)
RoiRows == last.f.nwb[last.f.ps].rows

(* The nodes the call added with a given name *)
AddedNamed(name) ==
    {i \in DOMAIN last.f.nwb : i > Len(last.before.nodes) /\ last.f.nwb[i].name = name}

(* C22: the extra per-ROI properties are attached after the ROI table has been
   populated, so that after a successful write with a non-empty propertydict the
   table holds a column for the named property. *)
C22_PropertiesAttachedAfterRois ==
    Stored /\ last.args.propertydict = "NonEmpty" =>
        /\ StepNo("properties") > StepNo("rois")
        /\ last.f.columns # {}

(* The number of ROIs in the data of a response series *)
DataRois(ex, data) == IF data = "roi_response_bk" THEN ex.nBkResp ELSE Len(ex.roi_idx)

(* C23: after a successful write_nwb the background response series holds the
   extractor's background response, with as many ROIs as the background region
   has rows. *)
C23_BackgroundSeriesCoIndexed ==
    Stored =>
        \A i \in AddedNamed(last.args.background_roi_response_series_name) :
            /\ last.f.nwb[i].data = "roi_response_bk"
            /\ DataRois(last.args.ex, last.f.nwb[i].data) = Len(last.f.nwb[i].rois)

(* C24: after a successful write_nwb every index of the neuron region and of the
   background region is a row index of the ROI table and refers to a row this
   call appended for an ROI of that group. *)
C24_RegionsReferToOwnRows ==
    Stored =>
        LET gen == IF last.before.state = "valid" THEN last.before.writes + 1 ELSE 1
            own(r, grp) == /\ r >= 0 /\ r < Len(RoiRows)
                           /\ RoiRows[r + 1].gen = gen
                           /\ RoiRows[r + 1].grp = grp
        IN /\ \A k \in DOMAIN last.f.neuron_rois : own(last.f.neuron_rois[k], "neuron")
           /\ \A k \in DOMAIN last.f.background_rois :
                 own(last.f.background_rois[k], "background")

(* C25: in the stored container the ids of every ROI table are pairwise
   distinct. *)
C25_RoiIdsDistinct ==
    disk.state = "valid" =>
        \A i \in DOMAIN disk.nodes :
            disk.nodes[i].type = "PlaneSegmentation" =>
                \A j, k \in DOMAIN disk.nodes[i].rows :
                    j # k => disk.nodes[i].rows[j].id # disk.nodes[i].rows[k].id

(* C26: the residual series written by write_nwb carries explicit timestamps, one
   per sample of the residual data, derived from the starting time and the rate
   of the neuron response series. *)
C26_ResidualTimestamps ==
    Stored =>
        \A i \in AddedNamed("residuals") :
            /\ last.f.nwb[i].timing.hasStamps
            /\ last.f.nwb[i].timing.stamps = last.args.ex.frames
            /\ \A n \in AddedNamed(last.args.neuron_roi_response_series_name) :
                  /\ last.f.nwb[i].timing.start = last.f.nwb[n].timing.start
                  /\ last.f.nwb[i].timing.rate = last.f.nwb[n].timing.rate
                  /\ last.f.nwb[n].timing.start = last.args.starting_time

(* A stored residual series whose timestamps start at a starting time other than 0 *)
C26_Witness ==
    /\ Stored /\ last.args.starting_time = 5
    /\ \E i \in AddedNamed("residuals") :
          /\ disk.nodes[i].timing.start = 5
          /\ disk.nodes[i].timing.stamps = last.args.ex.frames
          /\ disk.nodes[i].type = "TimeSeries"

(* C27: when the extractor has a summary image, the container stored by a
   successful write_nwb holds it as a named grayscale image. *)
C27_SummaryImageStored ==
    Stored /\ last.args.ex.hasCn =>
        \E i \in DOMAIN disk.nodes : /\ disk.nodes[i].type = "GrayscaleImage"
                                     /\ disk.nodes[i].name = "local_correlations"

(* C28: when write_nwb creates a fresh container, its identifier is the identifier
   argument when one is given, and its session start time is the
   session_start_time argument. *)
C28_FreshContainerIdentity ==
    Wrote /\ last.before.state = "absent" /\ StepNo(last.step) >= StepNo("device") =>
        /\ last.args.identifier # NoName => last.f.identifier = last.args.identifier
        /\ last.f.session_start_time = last.args.session_start_time

(* C29: get_frames(frame_idxs) with every index a stored frame returns one frame
   per requested index in the requested order, also when the indices are not
   contiguous or not sorted. *)
C29_OneFramePerRequestedIndex ==
    (ioLast # NoCall
       /\ ioLast.op \in {"Hdf5ImagingExtractor.get_frames", "MemmapImagingExtractor.get_frames"}
       /\ ioLast.args.given
       /\ (obj.class = "Hdf5ImagingExtractor" =>
              \A k \in DOMAIN ioLast.args.frame_idxs :
                  ioLast.args.frame_idxs[k] \in 0..(obj.num_frames - 1)))
    => /\ ioLast.err = "none"
       /\ ioLast.frames = ioLast.args.frame_idxs

(* C30: get_pixel_masks(ROI_ids=get_roi_ids()) returns the rows of
   get_pixel_masks(), and get_pixel_masks(ROI_ids=[r]) for an id r of the
   extractor returns exactly the pixel-mask rows tagged r. *)
C30_PixelMasksById ==
    (last # NoCall /\ last.op = "get_pixel_masks" /\ last.args.given) =>
        /\ last.args.ROI_ids = obj.roi_idx =>
              last.result = GetPixelMasksResult(obj, [given |-> FALSE, ROI_ids |-> <<>>])
        /\ (Len(last.args.ROI_ids) = 1 /\ last.args.ROI_ids[1] \in Range(obj.roi_idx)) =>
              last.result = SelectSeq(obj.pixel_masks,
                                      LAMBDA row : row.roi = last.args.ROI_ids[1])

====
